---- MODULE Spec2Model ----
(***************************************************************************)
(* BMtoBMP: conversion of a palette-indexed BM image, through a PAL file,  *)
(* into a 24-bit BMP file (include/bm_to_bmp_converter.h).                 *)
(*                                                                         *)
(* One call of BMtoBMP_convert_image is modelled as a sequence of steps:   *)
(* the filename check, create_image, the pixels of process_image one by    *)
(* one, fopen, the header, every byte written by output_image_to_file, the *)
(* final size update and destroy_img_data.  The environment decides which  *)
(* calloc, fopen or fwrite call fails.                                     *)
(***************************************************************************)
EXTENDS Integers, Sequences, FiniteSets, TLC

(***************************************************************************)
(* Bounds of the model.                                                    *)
(***************************************************************************)
\* largest in-range image width and height offered as input
MaxWidth == 2
MaxHeight == 2
\* largest palette index stored in the BM body; the PAL file has at most
\* MaxIndex + 1 entries
MaxIndex == 3
\* number of fwrite calls the environment lets fail in one conversion
MaxWriteFails == 1

(***************************************************************************)
(* Program constants.                                                      *)
(***************************************************************************)
BMtoBMP_BYTES_PER_PIXEL == 3
BMtoBMP_OUTPUT_FILENAME_MAX_LEN == 256
\* length of ".bmp" plus the terminating NUL
EXT_LEN == 5
\* process_image: fseek (bm_file, 0x0C, SEEK_SET)
BM_DATA_OFFSET_8 == 2 * 4
BM_DATA_OFFSET == 12
\* output_image_to_file: const int32_t ppm_resolution = 0x0B13
ppm_resolution_96dpi == (96 * 3937 + 50) \div 100
ppm_resolution == 2835
\* output_image_to_file: 54 + pixel_data_size, and size - 54
BMP_HEADER_SIZE == 54
\* output_image_to_file: fseek (output, 0x22, SEEK_SET)
SIZE_FIELD_OFFSET == 34

(***************************************************************************)
(* uint32_t values.  TLC's integers are 32-bit signed, so a uint32_t is    *)
(* kept as its two 16-bit halves and the arithmetic is done on 8-bit limbs,*)
(* modulo 2^32 as in C.                                                    *)
(***************************************************************************)
U32(n) == [hi |-> n \div 65536, lo |-> n % 65536]

\* the value of x as a natural number (only for x < 2^31)
U32Val(x) == x.hi * 65536 + x.lo

\* the four bytes of x, least significant first
U32Limbs(x) == <<x.lo % 256, x.lo \div 256, x.hi % 256, x.hi \div 256>>

U32FromLimbs(b) == [hi |-> b[4] * 256 + b[3], lo |-> b[2] * 256 + b[1]]

\* x * y in uint32_t arithmetic
MulU32(x, y) ==
  LET a == U32Limbs(x)
      b == U32Limbs(y)
      c1 == a[1] * b[1]
      c2 == a[1] * b[2] + a[2] * b[1] + (c1 \div 256)
      c3 == a[1] * b[3] + a[2] * b[2] + a[3] * b[1] + (c2 \div 256)
      c4 == a[1] * b[4] + a[2] * b[3] + a[3] * b[2] + a[4] * b[1] + (c3 \div 256)
  IN  U32FromLimbs(<<c1 % 256, c2 % 256, c3 % 256, c4 % 256>>)

\* x + y in uint32_t arithmetic
AddU32(x, y) ==
  LET l == x.lo + y.lo
  IN  [hi |-> (x.hi + y.hi + (l \div 65536)) % 65536, lo |-> l % 65536]

\* x - y in uint32_t arithmetic
SubU32(x, y) ==
  LET l == x.lo - y.lo
      borrow == IF l < 0 THEN 1 ELSE 0
  IN  [hi |-> (x.hi - y.hi - borrow + 131072) % 65536, lo |-> (l + 65536) % 65536]

\* x < y on uint32_t
LtU32(x, y) == x.hi < y.hi \/ (x.hi = y.hi /\ x.lo < y.lo)

\* (int32_t) x, two's complement
ToInt32(x) ==
  IF x.hi >= 32768 THEN (x.hi - 65536) * 65536 + x.lo ELSE x.hi * 65536 + x.lo

(***************************************************************************)
(* Little-endian readers and writers.                                      *)
(***************************************************************************)
\* read_uint32_from_file: bytes[3] << 24 | bytes[2] << 16 | bytes[1] << 8 | bytes[0]
read_uint32_from_file(bytes) ==
  [hi |-> bytes[4] * 256 + bytes[3], lo |-> bytes[2] * 256 + bytes[1]]

\* write_le_int32_to_file: the four bytes handed to fwrite
write_le_int32_to_file(x) ==
  <<x.lo % 256, (x.lo \div 256) % 256, x.hi % 256, (x.hi \div 256) % 256>>

\* write_le_int16_to_file: the two bytes handed to fwrite
write_le_int16_to_file(n) == <<n % 256, (n \div 256) % 256>>

\* write_string_to_file (output, "BM", 2)
Signature == <<66, 77>>

(***************************************************************************)
(* Sequence helpers.                                                       *)
(***************************************************************************)
Prefix(s, n) == SubSeq(s, 1, n)

Zeros(n) == [p \in 1..n |-> 0]

RECURSIVE Concat(_)
Concat(ss) == IF ss = <<>> THEN <<>> ELSE Head(ss) \o Concat(Tail(ss))

\* s with the bytes of w written at file offset off (0-based), as fwrite
\* does after fseek (output, off, SEEK_SET)
Overwrite(s, off, w) ==
  [p \in 1..(IF off + Len(w) > Len(s) THEN off + Len(w) ELSE Len(s)) |->
     IF p > off /\ p <= off + Len(w) THEN w[p - off]
     ELSE IF p <= Len(s) THEN s[p] ELSE 0]

(***************************************************************************)
(* Input files.                                                            *)
(***************************************************************************)
\* 0x55555556: the smallest width whose width * 3 wraps around 2^32 (to 2)
WrapWidth == [hi |-> 21845, lo |-> 21846]
\* 0xFFFFFFFF
HugeHeight == [hi |-> 65535, lo |-> 65535]

Widths == {U32(n) : n \in 0..MaxWidth} \cup {WrapWidth}
Heights == {U32(n) : n \in 0..MaxHeight} \cup {HugeHeight}

\* the rows the heap can hold; calloc fails at the latest on the row after
HeapMaxRows == MaxHeight

\* bytes of a BM file after its 8-byte width/height header
BodyMax == 4 + MaxWidth * MaxHeight + 1

\* the byte at offset 8 + q of a BM file, for two families of contents
BodyByte(pat, seed, q) ==
  IF pat = 0 THEN (seed + q) % (MaxIndex + 1)
  ELSE (seed + (q * (q + 1)) \div 2) % (MaxIndex + 1)

\* a BM file: width and height as little-endian uint32, then the body,
\* cut at len bytes
BMFile(w, h, pat, seed, len) ==
  Prefix(U32Limbs(w) \o U32Limbs(h) \o [q \in 1..BodyMax |-> BodyByte(pat, seed, q - 1)],
         len)

\* the file lengths tried for a header of w by h: cut inside the header,
\* the header alone, 8 + w * h bytes, and one less than, exactly and one more
\* than 12 + w * h bytes
BMLens(w, h) ==
  LET n == IF w \in {U32(k) : k \in 0..MaxWidth} /\ h \in {U32(k) : k \in 0..MaxHeight}
           THEN U32Val(w) * U32Val(h) ELSE 1
  IN  {0, 3, 4, 7, 8, 8 + n, 11 + n, 12 + n, 13 + n}

\* a PAL file of len bytes: RGB triples (10,20,30), (40,50,60), ...
PalFull == 3 * (MaxIndex + 1)
PalFile(len) == [p \in 1..len |-> (10 * p) % 256]
PalLens == {0} \cup ((PalFull - 4)..PalFull)

\* strlen (output_filename) offered by the caller
NameLens == {6, 251, 252}

(***************************************************************************)
(* State.                                                                  *)
(***************************************************************************)
VARIABLES
  bm,         \* bytes of the BM file
  pal,        \* bytes of the PAL file
  pc,         \* position in BMtoBMP_convert_image
  ret,        \* its return value, meaningful once pc = "done"
  width,      \* img.width
  height,     \* img.height
  dataNull,   \* img.data == NULL
  data,       \* img.data: the rows, each a sequence of bytes
  bmPos,      \* file position of bm_file
  i,          \* process_image: int32_t i
  j,          \* process_image: uint32_t j
  consumed,   \* the index bytes fread has taken from bm_file, in order
  readFailed, \* an fread of process_image returned short
  opens,      \* successful fopen calls on the output file
  closes,     \* fclose calls on the output file
  out,        \* bytes of the output file
  wfails,     \* fwrite calls that did not complete
  issued,     \* the pixel and padding bytes handed to fwrite, in order
  oi,         \* output_image_to_file: uint32_t i
  oj,         \* output_image_to_file: uint32_t j
  ok,         \* output_image_to_file: uint32_t k
  op,         \* output_image_to_file: uint32_t p
  allocd,     \* blocks calloc returned: 0 the row-pointer array, r + 1 row r
  freeCnt,    \* how many times each block was passed to free
  oob,        \* a row was accessed outside its allocated size
  envFail     \* the environment failed a calloc (out of memory) or the fopen

vars == <<bm, pal, pc, ret, width, height, dataNull, data, bmPos, i, j, consumed,
          readFailed, opens, closes, out, wfails, issued, oi, oj, ok, op, allocd,
          freeCnt, oob, envFail>>

Blocks == 0..(HeapMaxRows + 1)

Init ==
  /\ \E w \in Widths, h \in Heights, pat \in {0, 1}, seed \in 0..MaxIndex :
       \E len \in BMLens(w, h) : bm = BMFile(w, h, pat, seed, len)
  /\ \E len \in PalLens : pal = PalFile(len)
  /\ pc = "start"
  /\ ret = 1
  /\ width = U32(0)
  /\ height = U32(0)
  /\ dataNull = TRUE
  /\ data = <<>>
  /\ bmPos = 0
  /\ i = 0
  /\ j = 0
  /\ consumed = <<>>
  /\ readFailed = FALSE
  /\ opens = 0
  /\ closes = 0
  /\ out = <<>>
  /\ wfails = 0
  /\ issued = <<>>
  /\ oi = 0
  /\ oj = 0
  /\ ok = 0
  /\ op = 0
  /\ allocd = {}
  /\ freeCnt = [b \in Blocks |-> 0]
  /\ oob = FALSE
  /\ envFail = FALSE

(***************************************************************************)
(* BMtoBMP_convert_image: the filename check.                              *)
(***************************************************************************)
\* strlen (output_filename) + 5 > BMtoBMP_OUTPUT_FILENAME_MAX_LEN
FilenameTooLong(nameLen) == nameLen + EXT_LEN > BMtoBMP_OUTPUT_FILENAME_MAX_LEN

ConvertBegin ==
  /\ pc = "start"
  /\ \E nameLen \in NameLens :
       IF FilenameTooLong(nameLen)
       THEN pc' = "done" /\ ret' = -1
       ELSE pc' = "create" /\ ret' = ret
  /\ UNCHANGED <<issued, bm, pal, width, height, dataNull, data, bmPos, i, j, consumed,
                 readFailed, opens, closes, out, wfails, oi, oj, ok, op, allocd,
                 freeCnt, oob, envFail>>

(***************************************************************************)
(* create_image and allocate_img_data.                                     *)
(***************************************************************************)
\* the size of one row: img->width * BMtoBMP_BYTES_PER_PIXEL, in uint32_t
RowBytes(w) == MulU32(w, U32(BMtoBMP_BYTES_PER_PIXEL))

\* The calloc call the environment fails: -1 none, 0 the row-pointer array,
\* r + 1 the row r.  A height beyond the heap fails at some row.
AllocFailChoices(h) ==
  IF LtU32(U32(HeapMaxRows), h) THEN 0..(HeapMaxRows + 1)
  ELSE (-1)..U32Val(h)

\* allocate_img_data.  zeroNull: calloc of zero bytes returns NULL (the C
\* standard allows NULL or a unique pointer).  The result gives img->data,
\* the blocks calloc returned and the blocks freed again on the failure path.
allocate_img_data(h, w, failAt, zeroNull) ==
  LET arrNull == failAt = 0 \/ (h = U32(0) /\ zeroNull)
      rowZero == RowBytes(w) = U32(0) /\ zeroNull /\ h # U32(0)
      \* the first row whose calloc returns NULL, -1 when none does
      failRow == IF rowZero THEN 0 ELSE IF failAt > 0 THEN failAt - 1 ELSE -1
      partial == {0} \cup {r + 1 : r \in 0..(failRow - 1)}
  IN  IF arrNull
      THEN [null |-> TRUE, rows |-> <<>>, allocd |-> {}, freed |-> {}]
      ELSE IF failRow >= 0
      THEN [null |-> TRUE, rows |-> <<>>, allocd |-> partial, freed |-> partial]
      ELSE [null |-> FALSE,
            rows |-> [r \in 1..U32Val(h) |-> Zeros(U32Val(RowBytes(w)))],
            allocd |-> {0} \cup {r + 1 : r \in 0..(U32Val(h) - 1)},
            freed |-> {}]

\* free called once on each block of S
Free(cnt, S) == [b \in Blocks |-> IF b \in S THEN cnt[b] + 1 ELSE cnt[b]]

CreateImage ==
  /\ pc = "create"
  /\ IF Len(bm) < 8
     THEN \* read_uint32_from_file fails on the width or on the height
          /\ pc' = "done"
          /\ ret' = -1
          /\ width' = (IF Len(bm) >= 4 THEN read_uint32_from_file(SubSeq(bm, 1, 4))
                       ELSE width)
          /\ UNCHANGED <<height, dataNull, data, allocd, freeCnt, envFail>>
     ELSE LET w == read_uint32_from_file(SubSeq(bm, 1, 4))
              h == read_uint32_from_file(SubSeq(bm, 5, 8))
          IN  \E failAt \in AllocFailChoices(h), zeroNull \in BOOLEAN :
                LET a == allocate_img_data(h, w, failAt, zeroNull)
                IN  /\ width' = w
                    /\ height' = h
                    /\ dataNull' = a.null
                    /\ data' = a.rows
                    /\ allocd' = a.allocd
                    /\ freeCnt' = Free(freeCnt, a.freed)
                    /\ envFail' = (failAt # -1)
                    /\ IF a.null
                       THEN pc' = "done" /\ ret' = -1
                       ELSE pc' = "process_start" /\ ret' = ret
  /\ bmPos' = (IF Len(bm) < 8 THEN Len(bm) ELSE 8)
  /\ UNCHANGED <<issued, bm, pal, i, j, consumed, readFailed, opens, closes, out, wfails,
                 oi, oj, ok, op, oob>>

(***************************************************************************)
(* process_image.                                                          *)
(***************************************************************************)
\* for (int32_t i = img->height - 1; ...
FirstRow(h) == ToInt32(SubU32(h, U32(1)))

\* j * 3 + k, in uint32_t
ByteIndex(jj, k) == U32Val(AddU32(MulU32(U32(jj), U32(3)), U32(k)))

KeepRGB(color) == color
\* img->data[i][j * 3] = color_data[2]; [j * 3 + 1] = color_data[1]; ...
SwapToBGR(color) == <<color[3], color[2], color[1]>>

\* the row after the three stores of one pixel; a store outside the row's
\* allocated size changes nothing of the row
StoreTriple(row, jj, t) ==
  [p \in 1..Len(row) |->
     IF p = ByteIndex(jj, 0) + 1 THEN t[1]
     ELSE IF p = ByteIndex(jj, 1) + 1 THEN t[2]
     ELSE IF p = ByteIndex(jj, 2) + 1 THEN t[3]
     ELSE row[p]]

\* one pass through the body of the inner loop: the index byte, the three
\* PAL bytes at offset * 3, the stores
process_pixel(bmf, palf, pos, row, jj) ==
  IF pos >= Len(bmf)
  THEN [ok |-> FALSE, pos |-> pos, read |-> <<>>, row |-> row, oob |-> FALSE]
  ELSE LET offset == bmf[pos + 1]
           palPos == offset * 3
       IN  IF palPos + 3 > Len(palf)
           THEN [ok |-> FALSE, pos |-> pos + 1, read |-> <<offset>>, row |-> row,
                 oob |-> FALSE]
           ELSE [ok |-> TRUE, pos |-> pos + 1, read |-> <<offset>>,
                 row |-> StoreTriple(row, jj,
                           SwapToBGR(<<palf[palPos + 1], palf[palPos + 2],
                                       palf[palPos + 3]>>)),
                 oob |-> \E k \in 0..2 : ByteIndex(jj, k) >= Len(row)]

\* BMtoBMP_convert_image: if (process_image (...) != 0) goto clean_up;
SkipDecodeFailure == "open"
OnDecodeFailure == "destroy"

ProcessImageStart ==
  /\ pc = "process_start"
  /\ bmPos' = BM_DATA_OFFSET
  /\ i' = FirstRow(height)
  /\ j' = 0
  /\ pc' = "process"
  /\ UNCHANGED <<issued, bm, pal, ret, width, height, dataNull, data, consumed, readFailed,
                 opens, closes, out, wfails, oi, oj, ok, op, allocd, freeCnt, oob,
                 envFail>>

ProcessPixel ==
  /\ pc = "process"
  /\ i >= 0
  /\ LtU32(U32(j), width)
  /\ LET r == process_pixel(bm, pal, bmPos, data[i + 1], j)
     IN  /\ bmPos' = r.pos
         /\ consumed' = consumed \o r.read
         /\ readFailed' = (readFailed \/ ~r.ok)
         /\ data' = [data EXCEPT ![i + 1] = r.row]
         /\ oob' = (oob \/ r.oob)
         /\ IF ~r.ok
            THEN pc' = OnDecodeFailure /\ ret' = -1 /\ j' = j
            ELSE /\ ret' = ret
                 /\ j' = j + 1
                 \* a store outside the row is undefined: the run goes on
                 \* or the process dies
                 /\ \/ pc' = "process"
                    \/ r.oob /\ pc' = "crashed"
  /\ UNCHANGED <<issued, bm, pal, width, height, dataNull, i, opens, closes, out, wfails,
                 oi, oj, ok, op, allocd, freeCnt, envFail>>

ProcessRowEnd ==
  /\ pc = "process"
  /\ i >= 0
  /\ ~LtU32(U32(j), width)
  /\ i' = i - 1
  /\ j' = 0
  /\ UNCHANGED <<issued, bm, pal, pc, ret, width, height, dataNull, data, bmPos, consumed,
                 readFailed, opens, closes, out, wfails, oi, oj, ok, op, allocd,
                 freeCnt, oob, envFail>>

ProcessImageDone ==
  /\ pc = "process"
  /\ i < 0
  /\ pc' = "open"
  /\ UNCHANGED <<issued, bm, pal, ret, width, height, dataNull, data, bmPos, i, j, consumed,
                 readFailed, opens, closes, out, wfails, oi, oj, ok, op, allocd,
                 freeCnt, oob, envFail>>

(***************************************************************************)
(* output_image_to_file.                                                   *)
(***************************************************************************)
\* img->width * img->height * BMtoBMP_BYTES_PER_PIXEL, in uint32_t
pixel_data_size(w, h) == MulU32(MulU32(w, h), U32(BMtoBMP_BYTES_PER_PIXEL))

\* 54 + pixel_data_size, in uint32_t
output_file_size(w, h) == AddU32(U32(BMP_HEADER_SIZE), pixel_data_size(w, h))

pad_unreduced(w) == 4 - (RowBytes(w).lo % 4)
\* (4 - (img->width * BMtoBMP_BYTES_PER_PIXEL) % 4) % 4
pad(w) == (4 - (RowBytes(w).lo % 4)) % 4

\* the fifteen items the header's fwrite calls are given, in order
HeaderFields(w, h) ==
  << Signature,
     write_le_int32_to_file(output_file_size(w, h)),
     write_le_int32_to_file(U32(0)),
     write_le_int32_to_file(U32(54)),
     write_le_int32_to_file(U32(40)),
     write_le_int32_to_file(w),
     write_le_int32_to_file(h),
     write_le_int16_to_file(1),
     write_le_int16_to_file(BMtoBMP_BYTES_PER_PIXEL * 8),
     write_le_int32_to_file(U32(0)),
     write_le_int32_to_file(U32(0)),
     write_le_int32_to_file(U32(ppm_resolution)),
     write_le_int32_to_file(U32(ppm_resolution)),
     write_le_int32_to_file(U32(0)),
     write_le_int32_to_file(U32(0)) >>

\* fopen (img->filename, "wb"): the file is created empty, or fopen fails
OpenOutput ==
  /\ pc = "open"
  /\ \/ /\ opens' = opens + 1
        /\ out' = <<>>
        /\ pc' = "header"
        /\ UNCHANGED <<ret, envFail>>
     \/ /\ pc' = "destroy"
        /\ ret' = -1
        /\ envFail' = TRUE
        /\ UNCHANGED <<opens, out>>
  /\ UNCHANGED <<issued, bm, pal, width, height, dataNull, data, bmPos, i, j, consumed,
                 readFailed, closes, wfails, oi, oj, ok, op, allocd, freeCnt, oob>>

\* The header.  f = 0: every fwrite completes.  Otherwise the fwrite of
\* field f fails, adding nothing to the file, and the function leaves
\* through clean_up, closing the file.
WriteHeader ==
  /\ pc = "header"
  /\ LET fields == HeaderFields(width, height)
     IN  \E f \in 0..Len(fields) :
           IF f = 0
           THEN /\ out' = out \o Concat(fields)
                /\ pc' = "pixels"
                /\ oi' = 0
                /\ oj' = 0
                /\ ok' = 0
                /\ op' = 0
                /\ UNCHANGED <<ret, wfails, closes>>
           ELSE /\ wfails < MaxWriteFails
                /\ out' = out \o Concat(SubSeq(fields, 1, f - 1))
                /\ wfails' = wfails + 1
                /\ closes' = closes + 1
                /\ pc' = "destroy"
                /\ ret' = -1
                /\ UNCHANGED <<oi, oj, ok, op>>
  /\ UNCHANGED <<issued, bm, pal, width, height, dataNull, data, bmPos, i, j, consumed,
                 readFailed, opens, allocd, freeCnt, oob, envFail>>

\* write_byte_to_file (output, img->data[i][j * 3 + k]), checked
WritePixelByte ==
  /\ pc = "pixels"
  /\ LtU32(U32(oi), height)
  /\ LtU32(U32(oj), width)
  /\ LET row == data[oi + 1]
         idx == ByteIndex(oj, ok)
         inside == idx < Len(row)
     IN  /\ oob' = (oob \/ ~inside)
         \* a read outside the row yields any byte
         /\ \E byte \in (IF inside THEN {row[idx + 1]} ELSE {0, 255}) :
              /\ issued' = Append(issued, byte)
              /\ \/ \* the byte is written
                    /\ out' = Append(out, byte)
                    /\ IF ok + 1 < BMtoBMP_BYTES_PER_PIXEL
                       THEN ok' = ok + 1 /\ oj' = oj
                       ELSE ok' = 0 /\ oj' = oj + 1
                    /\ UNCHANGED <<pc, ret, wfails, closes>>
                 \/ \* fwrite fails: goto clean_up
                    /\ wfails < MaxWriteFails
                    /\ wfails' = wfails + 1
                    /\ closes' = closes + 1
                    /\ pc' = "destroy"
                    /\ ret' = -1
                    /\ UNCHANGED <<out, oj, ok>>
  /\ UNCHANGED <<bm, pal, width, height, dataNull, data, bmPos, i, j, consumed,
                 readFailed, opens, oi, op, allocd, freeCnt, envFail>>

\* write_byte_to_file (output, 0x0), its result ignored
WritePadByte ==
  /\ pc = "pixels"
  /\ LtU32(U32(oi), height)
  /\ ~LtU32(U32(oj), width)
  /\ op < pad(width)
  /\ \/ out' = Append(out, 0) /\ wfails' = wfails
     \/ wfails < MaxWriteFails /\ wfails' = wfails + 1 /\ out' = out
  /\ op' = op + 1
  /\ issued' = Append(issued, 0)
  /\ UNCHANGED <<bm, pal, pc, ret, width, height, dataNull, data, bmPos, i, j,
                 consumed, readFailed, opens, closes, oi, oj, ok, allocd, freeCnt,
                 oob, envFail>>

\* the end of one pass of the loop over i
ScanlineEnd ==
  /\ pc = "pixels"
  /\ LtU32(U32(oi), height)
  /\ ~LtU32(U32(oj), width)
  /\ ~(op < pad(width))
  /\ oi' = oi + 1
  /\ oj' = 0
  /\ ok' = 0
  /\ op' = 0
  /\ UNCHANGED <<issued, bm, pal, pc, ret, width, height, dataNull, data, bmPos, i, j,
                 consumed, readFailed, opens, closes, out, wfails, allocd, freeCnt,
                 oob, envFail>>

\* size = ftell (output); fseek (output, 0x22, SEEK_SET);
\* write_le_int32_to_file (output, size - 54), its result ignored;
\* fclose (output); return 0
FinalUpdate ==
  /\ pc = "pixels"
  /\ ~LtU32(U32(oi), height)
  /\ LET size == Len(out)
         field == write_le_int32_to_file(U32(size - BMP_HEADER_SIZE))
     IN  \/ out' = Overwrite(out, SIZE_FIELD_OFFSET, field) /\ wfails' = wfails
         \/ /\ wfails < MaxWriteFails
            /\ wfails' = wfails + 1
            /\ out' = out
  /\ closes' = closes + 1
  /\ ret' = 0
  /\ pc' = "destroy"
  /\ UNCHANGED <<issued, bm, pal, width, height, dataNull, data, bmPos, i, j, consumed,
                 readFailed, opens, oi, oj, ok, op, allocd, freeCnt, oob, envFail>>

(***************************************************************************)
(* destroy_img_data, and the return of BMtoBMP_convert_image.              *)
(***************************************************************************)
RowsLeaked(null, h) == IF null THEN {} ELSE {0}
\* the blocks destroy_img_data passes to free: every row, then img->data
destroy_img_data(null, h) ==
  IF null THEN {} ELSE {r + 1 : r \in 0..(U32Val(h) - 1)} \cup {0}

DestroyImgData ==
  /\ pc = "destroy"
  /\ freeCnt' = Free(freeCnt, destroy_img_data(dataNull, height))
  /\ dataNull' = TRUE
  /\ pc' = "done"
  /\ UNCHANGED <<issued, bm, pal, ret, width, height, data, bmPos, i, j, consumed,
                 readFailed, opens, closes, out, wfails, oi, oj, ok, op, allocd,
                 oob, envFail>>

Next ==
  \/ ConvertBegin
  \/ CreateImage
  \/ ProcessImageStart
  \/ ProcessPixel
  \/ ProcessRowEnd
  \/ ProcessImageDone
  \/ OpenOutput
  \/ WriteHeader
  \/ WritePixelByte
  \/ WritePadByte
  \/ ScanlineEnd
  \/ FinalUpdate
  \/ DestroyImgData

Spec == Init /\ [][Next]_vars

(***************************************************************************)
(* Vocabulary of the properties.                                           *)
(***************************************************************************)
\* the conversion returned 0
Returned0 == pc = "done" /\ ret = 0

\* the conversion returned 0 and every fwrite it issued completed
Succeeded == Returned0 /\ wfails = 0

\* the bytes of the file from the start of the pixel array, offset 54, on
PixelArray(f) == SubSeq(f, 55, Len(f))

\* create_image read the 8-byte header
HeaderRead == bmPos >= 8

\* img.width and img.height as numbers
W == U32Val(width)
H == U32Val(height)

\* (4 - (w * 3) mod 4) mod 4, without forming w * 3
ScanlinePad(w) == (4 - (((w % 4) * 3) % 4)) % 4

\* the on-disk length of one scanline
ScanlineLen(w) == w * 3 + ScanlinePad(w)

\* the 4 bytes of a little-endian field holding the number n
FieldOf(n) == <<n % 256, (n \div 256) % 256, (n \div 65536) % 256, n \div 16777216>>

\* the 4-byte field at file offset off (0-based) of f
FieldAt(f, off) == SubSeq(f, off + 1, off + 4)

\* the c-th pixel of scanline s of the pixel array a
PixelIn(a, w, s, c) == SubSeq(a, s * ScanlineLen(w) + c * 3 + 1,
                                 s * ScanlineLen(w) + c * 3 + 3)

\* the c-th pixel of on-disk scanline s, scanlines counted from offset 54
PixelAt(f, w, s, c) == PixelIn(PixelArray(f), w, s, c)

\* the RGB triple of palette entry idx; <<>> when PAL has no 3 bytes there
PalEntry(idx) ==
  IF idx * 3 + 3 <= Len(pal) THEN SubSeq(pal, idx * 3 + 1, idx * 3 + 3) ELSE <<>>

Reversed(t) == IF Len(t) = 3 THEN <<t[3], t[2], t[1]>> ELSE <<-1>>

\* the header was read, nothing in the environment failed, and the image
\* has at least one pixel and fits the BM file
Converting ==
  /\ pc = "done"
  /\ HeaderRead
  /\ ~envFail
  /\ wfails = 0
  /\ W >= 1 /\ W <= Len(bm)
  /\ H >= 1 /\ H <= Len(bm)

\* the W * H index bytes found from BM offset first on
IndicesFrom(first) == [n \in 1..(W * H) |-> bm[first + n]]

(***************************************************************************)
(* C1.  When the conversion returns 0, the pixel decoded from the          *)
(* (i * width + j)-th index byte consumed, which PAL resolves to (r, g, b),*)
(* is handed to the output file as the j-th pixel of scanline              *)
(* height - 1 - i and reads (b, g, r); the pixel array of the file, from   *)
(* offset 54 on, is exactly what was handed over when every write          *)
(* completed.                                                              *)
(***************************************************************************)
C1_RoundTripColor ==
  Returned0 =>
    /\ \A r \in 0..(H - 1) : \A c \in 0..(W - 1) :
         /\ Len(consumed) > r * W + c
         /\ Len(issued) >= (H - 1 - r) * ScanlineLen(W) + c * 3 + 3
         /\ PixelIn(issued, W, H - 1 - r, c)
              = Reversed(PalEntry(consumed[r * W + c + 1]))
    /\ wfails = 0 => PixelArray(out) = issued

C1_Witness ==
  /\ Succeeded
  /\ W = 2
  /\ H = 2
  /\ consumed = <<0, 1, 2, 3>>

C3_FileSizeFieldIsLength ==
  Succeeded =>
    /\ Len(out) = (IF H = 0 THEN 54 ELSE 54 + H * ScanlineLen(W))
    /\ FieldAt(out, 2) = FieldOf(Len(out))

(***************************************************************************)
(* C4.  Each scanline the encoder hands to the output file is width * 3   *)
(* pixel bytes followed by exactly (4 - (width * 3) mod 4) mod 4 zero      *)
(* bytes, a multiple of 4 bytes in all: every byte handed over at a        *)
(* padding position is zero, an encoder that returns 0 has handed over     *)
(* height whole scanlines, and the file holds exactly these after its 54   *)
(* header bytes when every write completed.                                *)
(***************************************************************************)
C4_ScanlinePadding ==
  /\ issued # <<>> =>
       /\ W >= 1
       /\ ScanlineLen(W) % 4 = 0
       /\ \A p \in 1..Len(issued) :
            (p - 1) % ScanlineLen(W) >= W * 3 => issued[p] = 0
  /\ Returned0 =>
       /\ Len(issued) = (IF H = 0 THEN 0 ELSE H * ScanlineLen(W))
       /\ wfails = 0 => out = Prefix(out, 54) \o issued

C4_Witness ==
  /\ Succeeded
  /\ W = 1
  /\ H = 2
  /\ Len(out) = 62
  /\ out[55] # 0

(***************************************************************************)
(* C5.  Once a read of the decoder has failed, the output file is never    *)
(* opened, no output byte is written, and the conversion returns non-zero. *)
(***************************************************************************)
C5_DecodeFailureNoOutput ==
  readFailed =>
    /\ pc \in {"destroy", "done"}
    /\ opens = 0
    /\ out = <<>>
    /\ pc = "done" => ret # 0

C5_Witness ==
  /\ readFailed
  /\ pc = "done"
  /\ ret = -1
  /\ Len(consumed) = 3

(***************************************************************************)
(* C6 (as claimed).  A conversion in which some fwrite did not complete    *)
(* returns non-zero.                                                       *)
(***************************************************************************)
C6_WriteFailureReported == (pc = "done" /\ wfails > 0) => ret # 0

(***************************************************************************)
(* C7 (as claimed).  With width = 0 or height = 0 in the header, and no    *)
(* failure of the environment, the conversion returns 0, reads no index    *)
(* byte and leaves a file of exactly the 54 header bytes.                  *)
(***************************************************************************)
C7_EmptyImageConverts ==
  (/\ pc = "done"
   /\ HeaderRead
   /\ ~envFail
   /\ wfails = 0
   /\ (W = 0 \/ H = 0))
  => /\ ret = 0
     /\ Len(out) = 54
     /\ consumed = <<>>

(***************************************************************************)
(* C8 (as claimed).  The pixels-per-meter fields at offsets 38 and 42 both *)
(* hold round(96 * 39.37) = 3780.                                          *)
(***************************************************************************)
C8_Resolution96Dpi ==
  Len(out) >= 46 =>
    /\ FieldAt(out, 38) = FieldOf(3780)
    /\ FieldAt(out, 42) = FieldOf(3780)

(***************************************************************************)
(* C8 (amended).  The pixels-per-meter fields at offsets 38 and 42 hold    *)
(* the same value, 0x0B13 = 2835 (72 DPI in pixels per meter).             *)
(***************************************************************************)
C8_Resolution ==
  Len(out) >= 46 =>
    /\ FieldAt(out, 38) = FieldAt(out, 42)
    /\ FieldAt(out, 42) = FieldOf(2835)

C8_Witness == Succeeded /\ Len(out) = 70

(***************************************************************************)
(* C9.  Nothing is freed that calloc did not return and nothing is freed   *)
(* twice; the output file is closed at most once and only if opened; when  *)
(* BMtoBMP_convert_image returns, every block calloc returned has been     *)
(* freed exactly once and the output file, if opened, has been closed.     *)
(***************************************************************************)
C9_CleanupOnEveryExit ==
  /\ \A b \in Blocks : freeCnt[b] <= 1 /\ (freeCnt[b] = 1 => b \in allocd)
  /\ closes <= opens
  /\ opens <= 1
  /\ pc = "done" => /\ \A b \in allocd : freeCnt[b] = 1
                    /\ closes = opens

C9_Witness ==
  /\ pc = "done"
  /\ ret = -1
  /\ opens = 1
  /\ allocd = {0, 1, 2}
  /\ wfails = 1
  /\ Len(out) > 54

(***************************************************************************)
(* C10 (as claimed).  No access to a pixel-buffer row lies outside the     *)
(* row's allocated size of width * 3 modulo 2^32 bytes.                    *)
(***************************************************************************)
C10_RowAccessInBounds == ~oob

====
